---------------------------- MODULE Spec2Model ----------------------------
(***************************************************************************)
(* NPI registry lookup (src/app.py): the identifier validator, the record  *)
(* normalizer (extract_provider_info) and the batch run (process_npi_list) *)
(* with its column projection.                                             *)
(*                                                                         *)
(* Text is modelled as a sequence of characters, a character being a       *)
(* one-token string ("1", "a", " ", "TAB", "SUP2"), so that trimming,      *)
(* length and character classes are computed and not assumed.  A Python    *)
(* dict is a function whose DOMAIN is the set of keys present; an absent   *)
(* key is a key outside the DOMAIN.  A value that may be None is wrapped:  *)
(* [none |-> TRUE] or [none |-> FALSE, value |-> v].                       *)
(***************************************************************************)
EXTENDS Integers, Sequences, FiniteSets, TLC

VARIABLES
    npi_list,        \* process_npi_list: the input list
    facility_focus,  \* process_npi_list: display mode parameter
    show_all,        \* process_npi_list: display mode parameter
    pc,              \* position of the batch run
    i,               \* enumerate index of the item being processed (0-based)
    npi,             \* the trimmed identifier of the current item
    results,         \* the list of result dicts
    origin,          \* history: input position (1-based) each entry came from
    calls,           \* history: the requests sent by query_npi_api
    progress,        \* history: the values given to progress_bar.progress
    events,          \* history: the order of appends, reports and sleeps
    df,              \* the returned table
    api_response,    \* normalizer run: the response handed to the normalizer
    provider_info,   \* normalizer run: what the normalizer returned
    vin,             \* validator run: the string handed to validate_npi
    vout,            \* validator run: what validate_npi returned
    form,            \* search: the values of the search widgets
    reply,           \* search: what the request ended in
    request,         \* search: the params of the request sent, if any
    messages,        \* search: the messages put on the page
    shown            \* search: the table put on the page, if any

batchVars == <<npi_list, facility_focus, show_all, pc, i, npi, results,
               origin, calls, progress, events, df>>
normVars  == <<api_response, provider_info>>
validVars == <<vin, vout>>
searchVars == <<form, reply, request, messages, shown>>
vars      == <<batchVars, normVars, validVars, searchVars>>

---------------------------------------------------------------------------
(* Bounds of the model.                                                    *)

MaxList  == 3   \* longest input list of a batch run
MaxLen   == 11  \* longest digit run of a validator input
MaxAddrs == 3   \* longest address list of a raw result
MaxTax   == 3   \* longest taxonomy list of a raw result
MaxNames == 2   \* longest other_names list of a raw result
MaxLimit == 2   \* largest "Max Results" of a search
MaxTotal == 3   \* largest result_count of a search response
MaxRows  == 2   \* longest results list of a search response
MaxSupplied == 2   \* most text criteria filled in at once in a search

---------------------------------------------------------------------------
(* Text.                                                                   *)

\* str.isspace of one character
IsSpaceChar(c) == c \in {" ", "TAB", "NL"}

\* str.isdecimal of one character: the ASCII digits
IsDecimalChar(c) == c \in {"0", "1", "2", "3", "4", "5", "6", "7", "8", "9"}

\* str.isdigit of one character: decimal characters and the digits that
\* need special handling, such as the superscript two
IsDigitChar(c) == IsDecimalChar(c) \/ c \in {"SUP2"}

RECURSIVE LStrip(_)
LStrip(s) == IF s # <<>> /\ IsSpaceChar(Head(s)) THEN LStrip(Tail(s)) ELSE s

RECURSIVE RStrip(_)
RStrip(s) ==
    IF s # <<>> /\ IsSpaceChar(s[Len(s)])
    THEN RStrip(SubSeq(s, 1, Len(s) - 1))
    ELSE s

\* str.strip()
Strip(s) == RStrip(LStrip(s))

\* str.isdigit(): every character is a digit and there is at least one
IsDigit(s) == s # <<>> /\ \A k \in 1..Len(s) : IsDigitChar(s[k])

\* ", ".join(names)
RECURSIVE Join(_)
Join(names) ==
    IF names = <<>> THEN <<>>
    ELSE IF Len(names) = 1 THEN names[1]
    ELSE names[1] \o <<",", " ">> \o Join(Tail(names))

\* f"{a} {b}".strip()
SpaceJoinStrip(a, b) == Strip(a \o <<" ">> \o b)

Range(s) == {s[k] : k \in 1..Len(s)}

---------------------------------------------------------------------------
(* Optional values and dicts.                                              *)

NoneValue == [none |-> TRUE]
Some(v) == [none |-> FALSE, value |-> v]

EmptyDict == [k \in {} |-> <<>>]

\* d.get(k, default)
Get(d, k, default) == IF k \in DOMAIN d THEN d[k] ELSE default

\* d.get(k) == v, for a tag v (an absent key gives None, equal to no tag)
GetIs(d, k, v) == k \in DOMAIN d /\ d[k] = v

\* d.get(k1) or d.get(k2) or ... or "": the first truthy (non-empty) text
RECURSIVE FirstTruthy(_, _)
FirstTruthy(d, keys) ==
    IF keys = <<>> THEN <<>>
    ELSE IF Head(keys) \in DOMAIN d /\ d[Head(keys)] # <<>> THEN d[Head(keys)]
    ELSE FirstTruthy(d, Tail(keys))

---------------------------------------------------------------------------
(* Identifier validator.                                                   *)

\* len(npi) == 10
NPI_LENGTH == 10

\* validate_npi, lines 203-214
validate_npi(s) == Len(Strip(s)) = NPI_LENGTH /\ IsDigit(Strip(s))

---------------------------------------------------------------------------
(* Record normalizer: extract_provider_info.                               *)

\* result.get("enumeration_type") == "NPI-2"
IsOrgTag(result) == GetIs(result, "enumeration_type", "NPI-2")

\* result.get("enumeration_type") == "NPI-1"
IsIndividualTag(result) == GetIs(result, "enumeration_type", "NPI-1")

OrgNameKeys == <<"organization_name", "name", "legal_business_name", "org_name">>

\* organization_name, lines 98-107
OrganizationName(result, basic) ==
    IF IsOrgTag(result) THEN FirstTruthy(basic, OrgNameKeys) ELSE <<>>

\* provider_name, lines 110-116
ProviderName(result, basic) ==
    IF IsIndividualTag(result)
    THEN SpaceJoinStrip(Get(basic, "first_name", <<>>), Get(basic, "last_name", <<>>))
    ELSE OrganizationName(result, basic)

\* the dict built for a LOCATION entry, lines 125-134
LocationDict(address) ==
    [address_1   |-> Get(address, "address_1", <<>>),
     address_2   |-> Get(address, "address_2", <<>>),
     city        |-> Get(address, "city", <<>>),
     state       |-> Get(address, "state", <<>>),
     postal_code |-> Get(address, "postal_code", <<>>),
     country     |-> Get(address, "country_name", <<>>),
     telephone   |-> Get(address, "telephone_number", <<>>),
     fax         |-> Get(address, "fax_number", <<>>)]

\* the dict built for a MAILING entry, lines 137-144
MailingDict(address) ==
    [address_1   |-> Get(address, "address_1", <<>>),
     address_2   |-> Get(address, "address_2", <<>>),
     city        |-> Get(address, "city", <<>>),
     state       |-> Get(address, "state", <<>>),
     postal_code |-> Get(address, "postal_code", <<>>),
     country     |-> Get(address, "country_name", <<>>)]

\* a mutant of the address walk: by position, first entry the practice
\* location and second entry the mailing address
WalkAddresses_ByPosition(addresses, acc) ==
    [primary_location |->
        IF Len(addresses) >= 1 THEN LocationDict(addresses[1]) ELSE acc.primary_location,
     mailing_address |->
        IF Len(addresses) >= 2 THEN MailingDict(addresses[2]) ELSE acc.mailing_address]

\* the loop over addresses, lines 119-144: acc holds primary_location and
\* mailing_address, both {} at the start; a later entry of the same role
\* overwrites an earlier one
RECURSIVE WalkAddresses(_, _)
WalkAddresses(addresses, acc) ==
    IF addresses = <<>> THEN acc
    ELSE LET address == Head(addresses) IN
         IF GetIs(address, "address_purpose", "LOCATION")
         THEN WalkAddresses(Tail(addresses),
                            [acc EXCEPT !.primary_location = LocationDict(address)])
         ELSE IF GetIs(address, "address_purpose", "MAILING")
         THEN WalkAddresses(Tail(addresses),
                            [acc EXCEPT !.mailing_address = MailingDict(address)])
         ELSE WalkAddresses(Tail(addresses), acc)

NoAddresses == [primary_location |-> EmptyDict, mailing_address |-> EmptyDict]

\* the loop over other_names, lines 147-154
RECURSIVE DbaNames(_, _)
DbaNames(other_names, dba_names) ==
    IF other_names = <<>> THEN dba_names
    ELSE LET other_name == Head(other_names)
             name == FirstTruthy(other_name, <<"organization_name", "name">>)
         IN  IF (GetIs(other_name, "code", "3")
                 \/ GetIs(other_name, "type", "Doing Business As"))
                /\ name # <<>> /\ name \notin Range(dba_names)
             THEN DbaNames(Tail(other_names), Append(dba_names, name))
             ELSE DbaNames(Tail(other_names), dba_names)

\* the for loop with break, lines 160-164: the first entry flagged primary,
\* 0 when none is
RECURSIVE FirstPrimary(_, _)
FirstPrimary(taxonomies, k) ==
    IF k > Len(taxonomies) THEN 0
    ELSE IF Get(taxonomies[k], "primary", FALSE) THEN k
    ELSE FirstPrimary(taxonomies, k + 1)

\* primary_taxonomy and taxonomy_description, lines 157-168
PrimaryTaxonomy(taxonomies) ==
    LET p == FirstPrimary(taxonomies, 1)
        code == IF p = 0 THEN <<>> ELSE Get(taxonomies[p], "code", <<>>)
        desc == IF p = 0 THEN <<>> ELSE Get(taxonomies[p], "desc", <<>>)
    IN  IF taxonomies # <<>> /\ code = <<>>
        THEN [code |-> Get(taxonomies[1], "code", <<>>),
              desc |-> Get(taxonomies[1], "desc", <<>>)]
        ELSE [code |-> code, desc |-> desc]

\* result.get("practiceLocations", []) or result.get("practice_locations", [])
PracticeLocations(result) ==
    IF Get(result, "practiceLocations", <<>>) # <<>>
    THEN result.practiceLocations
    ELSE Get(result, "practice_locations", <<>>)

\* the keys of provider_info in the order of the dict literal, lines 170-199
ProviderColumns ==
    <<"npi", "entity_type", "facility_name", "name", "doing_business_as",
      "first_name", "last_name", "organization_name", "primary_taxonomy",
      "taxonomy_description", "primary_practice_address", "primary_practice_city",
      "primary_practice_state", "primary_practice_zip", "primary_practice_phone",
      "primary_practice_fax", "mailing_address", "mailing_city", "mailing_state",
      "mailing_zip", "status", "last_updated", "enumeration_date",
      "authorized_official_first", "authorized_official_last",
      "authorized_official_title", "authorized_official_phone", "total_locations">>

\* provider_info for one result, lines 81-199
BuildInfo(result) ==
    LET basic      == Get(result, "basic", EmptyDict)
        addresses  == Get(result, "addresses", <<>>)
        taxonomies == Get(result, "taxonomies", <<>>)
        other_names == Get(result, "other_names", <<>>)
        practice_locations == PracticeLocations(result)
        organization_name == OrganizationName(result, basic)
        walked     == WalkAddresses(addresses, NoAddresses)
        primary_location == walked.primary_location
        mailing_address  == walked.mailing_address
        dba_names  == DbaNames(other_names, <<>>)
        tax        == PrimaryTaxonomy(taxonomies)
    IN  [npi |-> Get(result, "number", <<>>),
         entity_type |-> IF IsIndividualTag(result) THEN "Individual" ELSE "Organization",
         facility_name |-> organization_name,
         name |-> ProviderName(result, basic),
         doing_business_as |-> Join(dba_names),
         first_name |-> Get(basic, "first_name", <<>>),
         last_name |-> Get(basic, "last_name", <<>>),
         organization_name |-> organization_name,
         primary_taxonomy |-> tax.code,
         taxonomy_description |-> tax.desc,
         primary_practice_address |->
             SpaceJoinStrip(Get(primary_location, "address_1", <<>>),
                            Get(primary_location, "address_2", <<>>)),
         primary_practice_city |-> Get(primary_location, "city", <<>>),
         primary_practice_state |-> Get(primary_location, "state", <<>>),
         primary_practice_zip |-> Get(primary_location, "postal_code", <<>>),
         primary_practice_phone |-> Get(primary_location, "telephone", <<>>),
         primary_practice_fax |-> Get(primary_location, "fax", <<>>),
         mailing_address |->
             SpaceJoinStrip(Get(mailing_address, "address_1", <<>>),
                            Get(mailing_address, "address_2", <<>>)),
         mailing_city |-> Get(mailing_address, "city", <<>>),
         mailing_state |-> Get(mailing_address, "state", <<>>),
         mailing_zip |-> Get(mailing_address, "postal_code", <<>>),
         status |-> Get(basic, "status", <<>>),
         last_updated |-> Get(basic, "last_updated", <<>>),
         enumeration_date |-> Get(basic, "enumeration_date", <<>>),
         authorized_official_first |-> Get(basic, "authorized_official_first_name", <<>>),
         authorized_official_last |-> Get(basic, "authorized_official_last_name", <<>>),
         authorized_official_title |->
             Get(basic, "authorized_official_title_or_position", <<>>),
         authorized_official_phone |->
             Get(basic, "authorized_official_telephone_number", <<>>),
         total_locations |->
             IF practice_locations # <<>> THEN Len(practice_locations) + 1 ELSE 1]

\* not api_response: None and the empty dict are falsy
Falsy(response) == response.none \/ DOMAIN response.value = {}

\* extract_provider_info, lines 67-201
extract_provider_info(response) ==
    IF Falsy(response)
       \/ "results" \notin DOMAIN response.value
       \/ Len(response.value.results) = 0
    THEN NoneValue
    ELSE Some(BuildInfo(response.value.results[1]))

---------------------------------------------------------------------------
(* The responses the registry can give: the inputs of the normalizer.      *)

SeqsUpTo(S, n) == UNION {[1..m -> S] : m \in 0..n}

\* texts, one per field so that the source of a value can be told
T_NPI  == <<"1", "2", "3", "4", "5", "6", "7", "8", "9", "0">>
\* a run of n decimal digits: 1 2 3 ... 9 0 1 ...
DigitRun(n) == [k \in 1..n |-> T_NPI[((k - 1) % 10) + 1]]

T_ORG  == <<"O", "R", "G">>
T_NAM  == <<"N", "A", "M">>
T_LBN  == <<"L", "B", "N">>
T_ON   == <<"O", "N">>
T_JOHN == <<"J", "O", "H", "N">>
T_DOE  == <<"D", "O", "E">>

OptText(k, t) == {EmptyDict, k :> <<>>, k :> t}

\* the "basic" object: each name field absent, empty or set
BasicObjects ==
    {a @@ b @@ c @@ d @@ f @@ l :
        a \in OptText("organization_name", T_ORG),
        b \in OptText("name", T_NAM),
        c \in OptText("legal_business_name", T_LBN),
        d \in OptText("org_name", T_ON),
        f \in {EmptyDict, "first_name" :> T_JOHN},
        l \in {EmptyDict, "last_name" :> T_DOE}}

EnumerationTags == {EmptyDict} \cup
    {"enumeration_type" :> t : t \in {"NPI-1", "NPI-2", "NPI-3"}}

BaseResult ==
    [number |-> T_NPI, enumeration_type |-> "NPI-2",
     basic |-> [organization_name |-> T_ORG, status |-> <<"A">>]]

NameResults ==
    {("number" :> T_NPI) @@ t @@ ("basic" :> b) :
        t \in EnumerationTags, b \in BasicObjects}

\* the two address bodies: a full one and one with absent fields
AddressBodies ==
    {[address_1 |-> <<"1", " ", "M">>, address_2 |-> <<"S", "1">>,
      city |-> <<"X">>, state |-> <<"P", "A">>, postal_code |-> <<"1", "9">>,
      country_name |-> <<"U", "S">>, telephone_number |-> <<"5", "5">>,
      fax_number |-> <<"6", "6">>],
     [address_1 |-> <<"P", "O">>, city |-> <<"Y">>, state |-> <<"N", "J">>,
      postal_code |-> <<"0", "8">>]}

AddressEntries ==
    {p @@ b :
        p \in {EmptyDict} \cup
              {"address_purpose" :> t : t \in {"LOCATION", "MAILING", "PRIMARY"}},
        b \in AddressBodies}

AddressResults ==
    {BaseResult @@ ("addresses" :> a) : a \in SeqsUpTo(AddressEntries, MaxAddrs)}

TaxonomyEntries ==
    {p @@ c :
        p \in {EmptyDict, "primary" :> TRUE, "primary" :> FALSE},
        c \in {[code |-> <<>>, desc |-> <<"D", "0">>],
               [code |-> <<"C", "1">>, desc |-> <<"D", "1">>],
               [code |-> <<"C", "2">>, desc |-> <<"D", "2">>]}}

TaxonomyResults ==
    {BaseResult @@ ("taxonomies" :> t) : t \in SeqsUpTo(TaxonomyEntries, MaxTax)}

OtherNameEntries ==
    {c @@ t @@ n :
        c \in {EmptyDict, "code" :> "3", "code" :> "1"},
        t \in {EmptyDict, "type" :> "Doing Business As"},
        n \in {EmptyDict, "organization_name" :> <<"D", "1">>,
               "organization_name" :> <<"D", "2">>, "name" :> <<"D", "2">>}}

OtherNameResults ==
    {BaseResult @@ ("other_names" :> o) : o \in SeqsUpTo(OtherNameEntries, MaxNames)}

LocationLists == {<<>>, <<[city |-> <<"Z">>]>>, <<[city |-> <<"Z">>], [city |-> <<"W">>]>>}

IdentityResults ==
    {n @@ a @@ b @@ [enumeration_type |-> "NPI-1", basic |-> [first_name |-> T_JOHN]] :
        n \in OptText("number", T_NPI),
        a \in {EmptyDict} \cup {"practiceLocations" :> l : l \in LocationLists},
        b \in {EmptyDict} \cup {"practice_locations" :> l : l \in LocationLists}}

RawResults ==
    NameResults \cup AddressResults \cup TaxonomyResults
        \cup OtherNameResults \cup IdentityResults

\* the parsed bodies with no result in them
EmptyBodies ==
    {EmptyDict,
     [Errors |-> <<"E">>],
     [result_count |-> 0, results |-> <<>>]}

NormalizerInputs ==
    {NoneValue} \cup {Some(b) : b \in EmptyBodies}
        \cup {Some([result_count |-> 1, results |-> <<r>>]) : r \in RawResults}

---------------------------------------------------------------------------
(* The idle values of the variables a run does not use.                    *)

BatchIdle ==
    /\ npi_list = <<>> /\ facility_focus = TRUE /\ show_all = FALSE
    /\ i = 0 /\ npi = <<>> /\ results = <<>> /\ origin = <<>> /\ calls = <<>>
    /\ progress = <<>> /\ events = <<>> /\ df = NoneValue

NormIdle == api_response = NoneValue /\ provider_info = NoneValue

ValidIdle == vin = <<>> /\ vout = FALSE

SearchIdle ==
    /\ form = EmptyDict /\ reply = NoneValue /\ request = NoneValue
    /\ messages = <<>> /\ shown = NoneValue

---------------------------------------------------------------------------
(* The normalizer run: one call of extract_provider_info.                  *)

InitNormalize ==
    /\ pc = "normalize"
    /\ api_response \in NormalizerInputs
    /\ provider_info = NoneValue
    /\ BatchIdle /\ ValidIdle /\ SearchIdle

Normalize ==
    /\ pc = "normalize"
    /\ provider_info' = extract_provider_info(api_response)
    /\ pc' = "normalized"
    /\ UNCHANGED <<api_response, validVars, searchVars>>
    /\ UNCHANGED <<npi_list, facility_focus, show_all, i, npi, results, origin,
                   calls, progress, events, df>>

NextNormalize == Normalize

SpecNormalize == InitNormalize /\ [][NextNormalize]_vars

---------------------------------------------------------------------------
(* Registry client: query_npi_api.                                         *)

\* the result the registry holds for the valid identifier of the batch
OrgResult ==
    [number |-> T_NPI, enumeration_type |-> "NPI-2",
     basic |-> [organization_name |-> T_ORG],
     addresses |-> <<[address_purpose |-> "LOCATION", city |-> <<"X">>]>>]

\* what one requests.get can end in: a transport failure or error status
\* (RequestException), a body that is no JSON (JSONDecodeError), or a
\* parsed body
ClientOutcomes ==
    {[kind |-> "RequestException"], [kind |-> "JSONDecodeError"]}
        \cup {[kind |-> "json", body |-> b] : b \in EmptyBodies}
        \cup {[kind |-> "json", body |-> [result_count |-> 1, results |-> <<OrgResult>>]]}

\* query_npi_api, lines 50-65: the parsed body, or None after either error
query_npi_api(outcome) ==
    IF outcome.kind = "json" THEN Some(outcome.body) ELSE NoneValue

---------------------------------------------------------------------------
(* Batch run: process_npi_list.                                            *)

MSG_INVALID   == "Invalid NPI format (must be 10 digits)"
MSG_NOT_FOUND == "No results found"
MSG_FAILED    == "API request failed"

ErrorEntry(id, message) == [npi |-> id, error |-> message]

\* the entry appended after the client call, lines 246-259
LookupEntry(id, response) ==
    IF ~Falsy(response)
    THEN LET info == extract_provider_info(response) IN
         IF ~info.none THEN info.value ELSE ErrorEntry(id, MSG_NOT_FOUND)
    ELSE ErrorEntry(id, MSG_FAILED)

\* the keys of a result dict in their order
KeyOrder(entry) ==
    IF "error" \in DOMAIN entry THEN <<"npi", "error">> ELSE ProviderColumns

\* the columns of pd.DataFrame(results): the keys in first-seen order
RECURSIVE UnionColumns(_, _)
UnionColumns(rows, columns) ==
    IF rows = <<>> THEN columns
    ELSE UnionColumns(Tail(rows),
             columns \o SelectSeq(KeyOrder(Head(rows)),
                                  LAMBDA c : c \notin Range(columns)))

\* pd.DataFrame(results), line 267: a cell a row has no key for is absent
DataFrame(rows) == [columns |-> UnionColumns(rows, <<>>), rows |-> rows]

\* df[cols]
SelectColumns(frame, cols) ==
    [columns |-> cols,
     rows |-> [k \in 1..Len(frame.rows) |->
                 [c \in Range(cols) \cap DOMAIN frame.rows[k] |-> frame.rows[k][c]]]]

PriorityFacility ==
    <<"npi", "entity_type", "facility_name", "doing_business_as",
      "primary_practice_city", "primary_practice_state",
      "primary_practice_zip", "primary_practice_phone">>

PriorityPerson ==
    <<"npi", "entity_type", "name", "primary_practice_city",
      "primary_practice_state", "primary_practice_zip", "primary_practice_phone">>

EXTRA_COLUMNS == 3

\* the priority filter, lines 271-285
Filtered(frame, focus, all) ==
    LET priority_cols == IF focus THEN PriorityFacility ELSE PriorityPerson
        available_cols == SelectSeq(priority_cols, LAMBDA c : c \in Range(frame.columns))
        other_cols == SelectSeq(frame.columns, LAMBDA c : c \notin Range(available_cols))
        few == SubSeq(other_cols, 1,
                      IF Len(other_cols) < EXTRA_COLUMNS THEN Len(other_cols)
                      ELSE EXTRA_COLUMNS)
    IN  IF ~all THEN SelectColumns(frame, available_cols \o few) ELSE frame

\* the projection without the test of the error column (a mutant)
Project_IgnoringErrors(frame, focus, all) ==
    IF frame.rows # <<>> THEN Filtered(frame, focus, all) ELSE frame

\* the projection, lines 269-287
Project(frame, focus, all) ==
    IF frame.rows # <<>> /\ "error" \notin Range(frame.columns)
    THEN Filtered(frame, focus, all)
    ELSE frame

\* the identifiers of a batch: ten digits with whitespace around them, nine
\* digits, blank
IdPool ==
    {<<" ">> \o T_NPI \o <<"NL">>, DigitRun(9), <<" ", "TAB">>}

Init ==
    /\ pc = "loop"
    /\ npi_list \in SeqsUpTo(IdPool, MaxList)
    /\ facility_focus \in BOOLEAN
    /\ show_all \in BOOLEAN
    /\ i = 0 /\ npi = <<>> /\ results = <<>> /\ origin = <<>> /\ calls = <<>>
    /\ progress = <<>> /\ events = <<>> /\ df = NoneValue
    /\ NormIdle /\ ValidIdle /\ SearchIdle

Event(ev) == [ev |-> ev, idx |-> i + 1]

\* lines 232-237, taking a blank item to the next (a mutant: no continue)
NextIdentifier_KeepBlank ==
    /\ pc = "loop" /\ i < Len(npi_list)
    /\ npi' = Strip(npi_list[i + 1])
    /\ pc' = "item"
    /\ UNCHANGED <<npi_list, facility_focus, show_all, i, results, origin, calls,
                   progress, events, df, normVars, validVars,
                   searchVars>>

\* lines 232-237: the next item is trimmed; a blank one is passed over
\* (continue: no entry, no progress report, no sleep)
NextIdentifier ==
    /\ pc = "loop" /\ i < Len(npi_list)
    /\ npi' = Strip(npi_list[i + 1])
    /\ IF npi' = <<>>
       THEN i' = i + 1 /\ pc' = "loop"
       ELSE i' = i /\ pc' = "item"
    /\ UNCHANGED <<npi_list, facility_focus, show_all, results, origin, calls,
                   progress, events, df, normVars, validVars,
                   searchVars>>

\* lines 239-243 with the request sent before the format is looked at (a
\* mutant)
RejectInvalid_AfterCall ==
    /\ pc = "item" /\ ~validate_npi(npi)
    /\ \E outcome \in ClientOutcomes :
           calls' = Append(calls, [idx |-> i + 1, number |-> npi, outcome |-> outcome])
    /\ results' = Append(results, ErrorEntry(npi, MSG_INVALID))
    /\ origin' = Append(origin, i + 1)
    /\ events' = events \o <<Event("call"), Event("append")>>
    /\ pc' = "progress"
    /\ UNCHANGED <<npi_list, facility_focus, show_all, i, npi, progress, df,
                   normVars, validVars,
                   searchVars>>

\* lines 239-243: an identifier of the wrong format gets its error entry
RejectInvalid ==
    /\ pc = "item" /\ ~validate_npi(npi)
    /\ results' = Append(results, ErrorEntry(npi, MSG_INVALID))
    /\ origin' = Append(origin, i + 1)
    /\ events' = Append(events, Event("append"))
    /\ pc' = "progress"
    /\ UNCHANGED <<npi_list, facility_focus, show_all, i, npi, calls, progress, df,
                   normVars, validVars,
                   searchVars>>

\* lines 244-259 with a failed request ending the run (a mutant: the
\* exception is not caught)
Lookup_AbortOnFailure ==
    /\ pc = "item" /\ validate_npi(npi)
    /\ \E outcome \in ClientOutcomes :
        /\ calls' = Append(calls, [idx |-> i + 1, number |-> npi, outcome |-> outcome])
        /\ IF outcome.kind = "json"
           THEN /\ results' = Append(results, LookupEntry(npi, query_npi_api(outcome)))
                /\ origin' = Append(origin, i + 1)
                /\ events' = events \o <<Event("call"), Event("append")>>
                /\ pc' = "progress"
           ELSE /\ events' = Append(events, Event("call"))
                /\ pc' = "done"
                /\ UNCHANGED <<results, origin>>
    /\ UNCHANGED <<npi_list, facility_focus, show_all, i, npi, progress, df,
                   normVars, validVars,
                   searchVars>>

\* lines 244-259: the request is sent, and the record or the error entry
\* is appended
Lookup ==
    /\ pc = "item" /\ validate_npi(npi)
    /\ \E outcome \in ClientOutcomes :
        /\ calls' = Append(calls, [idx |-> i + 1, number |-> npi, outcome |-> outcome])
        /\ results' = Append(results, LookupEntry(npi, query_npi_api(outcome)))
    /\ origin' = Append(origin, i + 1)
    /\ events' = events \o <<Event("call"), Event("append")>>
    /\ pc' = "progress"
    /\ UNCHANGED <<npi_list, facility_focus, show_all, i, npi, progress, df,
                   normVars, validVars,
                   searchVars>>

\* line 261 with the sleep of line 262 left out (a mutant)
ReportProgress_NoSleep ==
    /\ pc = "progress"
    /\ progress' = Append(progress, <<i + 1, Len(npi_list)>>)
    /\ events' = Append(events, Event("progress"))
    /\ i' = i + 1
    /\ pc' = "loop"
    /\ UNCHANGED <<npi_list, facility_focus, show_all, npi, results, origin,
                   calls, df, normVars, validVars,
                   searchVars>>

\* line 261: progress_bar.progress((i + 1) / len(npi_list))
ReportProgress ==
    /\ pc = "progress"
    /\ progress' = Append(progress, <<i + 1, Len(npi_list)>>)
    /\ events' = Append(events, Event("progress"))
    /\ pc' = "sleep"
    /\ UNCHANGED <<npi_list, facility_focus, show_all, i, npi, results, origin,
                   calls, df, normVars, validVars,
                   searchVars>>

\* line 262: time.sleep(0.1), and on to the next item
Sleep ==
    /\ pc = "sleep"
    /\ events' = Append(events, Event("sleep"))
    /\ i' = i + 1
    /\ pc' = "loop"
    /\ UNCHANGED <<npi_list, facility_focus, show_all, npi, results, origin,
                   calls, progress, df, normVars, validVars,
                   searchVars>>

\* lines 264-287: the list is exhausted; the table is built and projected
Finish ==
    /\ pc = "loop" /\ i = Len(npi_list)
    /\ df' = Project(DataFrame(results), facility_focus, show_all)
    /\ pc' = "done"
    /\ UNCHANGED <<npi_list, facility_focus, show_all, i, npi, results, origin,
                   calls, progress, events, normVars, validVars,
                   searchVars>>

Next ==
    \/ NextIdentifier
    \/ RejectInvalid
    \/ Lookup
    \/ ReportProgress
    \/ Sleep
    \/ Finish

Spec == Init /\ [][Next]_vars

---------------------------------------------------------------------------
(* Claims about the batch run, checked under Spec.                         *)

IsBlank(s) == \A k \in 1..Len(s) : IsSpaceChar(s[k])

IsError(entry) == "error" \in DOMAIN entry

\* the number of items of the list whose handling is complete
Handled == IF pc \in {"progress", "sleep"} THEN i + 1 ELSE i

\* the positions in results of the entries that came from input position k
EntriesOf(k) == {m \in 1..Len(origin) : origin[m] = k}

\* the requests sent for input position k
CallsOf(k) == {c \in 1..Len(calls) : calls[c].idx = k}

\* a parsed body that holds no result
NoResult(body) == "results" \notin DOMAIN body \/ Len(body.results) = 0

\* C1: the results hold exactly one entry per input identifier that is not
\* blank, in the order of the input; a repeated identifier has an entry per
\* occurrence and a blank one has none; an error entry carries its trimmed
\* identifier, and the returned table has one row per entry, in that order.
C1_OneEntryPerIdentifier ==
    /\ Len(results) = Len(origin)
    /\ \A k \in 1..Handled :
           Cardinality(EntriesOf(k)) = IF IsBlank(npi_list[k]) THEN 0 ELSE 1
    /\ \A m \in 1..Len(origin) : origin[m] \in 1..Handled
    /\ \A m, n \in 1..Len(origin) : m < n => origin[m] < origin[n]
    /\ \A m \in 1..Len(results) :
           IsError(results[m]) => results[m].npi = Strip(npi_list[origin[m]])
    /\ pc = "done" =>
           /\ Handled = Len(npi_list)
           /\ Len(df.rows) = Len(results)
           /\ \A m \in 1..Len(results) : df.rows[m].npi = results[m].npi

\* C1 witness: a finished run over an identifier, a blank and the same
\* identifier again
C1_Witness ==
    /\ pc = "done"
    /\ Len(npi_list) = 3
    /\ npi_list[1] = npi_list[3] /\ ~IsBlank(npi_list[1]) /\ IsBlank(npi_list[2])
    /\ origin = <<1, 3>>
    /\ Len(df.rows) = 2

\* the item at input position k failed: wrong format, a failed request, or
\* a response without a result
Failed(k) ==
    \/ ~IsBlank(npi_list[k]) /\ ~validate_npi(npi_list[k])
    \/ \E c \in CallsOf(k) :
           \/ calls[c].outcome.kind \in {"RequestException", "JSONDecodeError"}
           \/ calls[c].outcome.kind = "json" /\ NoResult(calls[c].outcome.body)

\* C2: a failed item is recorded as an error entry of that item, and the
\* run goes on: it never stops before the end of the list, and when it has
\* ended every later identifier that is not blank has its entry.
C2_FailureIsolation ==
    /\ pc # "done" => ENABLED Next
    /\ pc = "done" => i = Len(npi_list) /\ "rows" \in DOMAIN df
    /\ \A k \in 1..Handled :
           Failed(k) =>
               \E m \in EntriesOf(k) :
                   IsError(results[m]) /\ results[m].npi = Strip(npi_list[k])
    /\ pc = "done" =>
           \A k \in 1..Len(npi_list) :
               Failed(k) =>
                   \A j \in (k + 1)..Len(npi_list) :
                       ~IsBlank(npi_list[j]) => EntriesOf(j) # {}

\* C2 witness: a finished run whose first item failed at the client and
\* whose second and third items got a record and an error entry
C2_Witness ==
    /\ pc = "done"
    /\ Len(npi_list) = 3 /\ Len(results) = 3 /\ Len(calls) = 2
    /\ calls[1].idx = 1 /\ calls[1].outcome.kind = "RequestException"
    /\ results[1] = ErrorEntry(T_NPI, MSG_FAILED)
    /\ ~IsError(results[2])
    /\ results[3] = ErrorEntry(DigitRun(9), MSG_INVALID)

\* C3: an identifier the validator rejects gets the entry "Invalid NPI
\* format" with that identifier and no request; every request sent is for
\* an identifier the validator accepts.
C3_NoCallForRejected ==
    /\ \A c \in 1..Len(calls) :
           /\ validate_npi(calls[c].number)
           /\ calls[c].number = Strip(npi_list[calls[c].idx])
    /\ \A k \in 1..Handled :
           (~IsBlank(npi_list[k]) /\ ~validate_npi(npi_list[k])) =>
               /\ CallsOf(k) = {}
               /\ \E m \in EntriesOf(k) :
                      results[m] = ErrorEntry(Strip(npi_list[k]), MSG_INVALID)

\* C3 witness: the run of a record, a nine-digit identifier and a failed
\* request: requests for the first and the third item only
C3_Witness ==
    /\ pc = "done"
    /\ Len(npi_list) = 3 /\ Len(results) = 3
    /\ ~IsError(results[1])
    /\ results[2] = ErrorEntry(DigitRun(9), MSG_INVALID)
    /\ results[3] = ErrorEntry(T_NPI, MSG_FAILED)
    /\ Len(calls) = 2 /\ calls[1].idx = 1 /\ calls[2].idx = 3

\* C4: a request that returned a parsed response without a result gets the
\* entry "No results found", the normalizer yielding None for it; the entry
\* "API request failed" is only that of a request that itself failed.
C4_NotFoundForEmptyResponse ==
    \A c \in 1..Len(calls) :
        \A m \in EntriesOf(calls[c].idx) :
            /\ (calls[c].outcome.kind = "json" /\ NoResult(calls[c].outcome.body)) =>
                   /\ extract_provider_info(Some(calls[c].outcome.body)).none
                   /\ results[m] = ErrorEntry(calls[c].number, MSG_NOT_FOUND)
            /\ results[m] = ErrorEntry(calls[c].number, MSG_FAILED) =>
                   calls[c].outcome.kind \in {"RequestException", "JSONDecodeError"}

\* C10: when an error entry is among the results, the returned table is
\* not filtered, whatever the mode and the show-all flag: every key of every
\* entry is a column, the identifier and the error message among them, and
\* every row keeps all its cells.
C10_ErrorsKeepAllColumns ==
    (pc = "done" /\ \E m \in 1..Len(results) : IsError(results[m])) =>
        /\ \A m \in 1..Len(results) : DOMAIN results[m] \subseteq Range(df.columns)
        /\ {"npi", "error"} \subseteq Range(df.columns)
        /\ Len(df.columns) = Cardinality(Range(df.columns))
        /\ df.rows = results

\* C10 witness: facility mode, show-all off, a record and an error entry,
\* and all 29 columns returned
C10_Witness ==
    /\ pc = "done" /\ facility_focus /\ ~show_all
    /\ \E m \in 1..Len(results) : IsError(results[m])
    /\ \E m \in 1..Len(results) : ~IsError(results[m])
    /\ Len(df.columns) = Len(ProviderColumns) + 1
    /\ \E m \in 1..Len(df.rows) : "error" \in DOMAIN df.rows[m]

\* C13: the progress callback is invoked once after each processed
\* identifier, after its entry is appended, with (completedCount,
\* totalCount): completedCount the number of entries emitted so far,
\* totalCount the number of identifiers the run processes; completedCount
\* never exceeds totalCount and the last invocation reports them equal.
C13_ProgressCounts ==
    LET total == Cardinality({k \in 1..Len(npi_list) : ~IsBlank(npi_list[k])}) IN
    /\ Len(progress) = IF pc = "progress" THEN Len(results) - 1 ELSE Len(results)
    /\ \A m \in 1..Len(progress) :
           /\ progress[m] = <<m, total>>
           /\ progress[m][1] <= progress[m][2]
    /\ (pc = "done" /\ progress # <<>>) =>
           progress[Len(progress)][1] = progress[Len(progress)][2]

EventsAt(ev) == {p \in 1..Len(events) : events[p].ev = ev}

\* C16: the run is sequential and throttled: the events of an item come
\* after those of the items before it; an appended entry is followed by the
\* progress report of that item, then by its sleep, and only then by the
\* request or the entry of a later item; a report follows only an append and
\* a sleep only a report; between two requests there is a sleep.
C16_ThrottlingOrder ==
    /\ \A p, q \in 1..Len(events) : p < q => events[p].idx <= events[q].idx
    /\ \A p \in EventsAt("append") :
           /\ p + 1 <= Len(events) =>
                  events[p + 1] = [ev |-> "progress", idx |-> events[p].idx]
           /\ p + 2 <= Len(events) =>
                  events[p + 2] = [ev |-> "sleep", idx |-> events[p].idx]
           /\ p + 3 <= Len(events) =>
                  /\ events[p + 3].ev \in {"call", "append"}
                  /\ events[p + 3].idx > events[p].idx
    /\ \A p \in EventsAt("progress") :
           p > 1 /\ events[p - 1] = [ev |-> "append", idx |-> events[p].idx]
    /\ \A p \in EventsAt("sleep") :
           p > 1 /\ events[p - 1] = [ev |-> "progress", idx |-> events[p].idx]
    /\ \A p \in EventsAt("call") :
           p < Len(events) /\ events[p + 1] = [ev |-> "append", idx |-> events[p].idx]
    /\ \A p, q \in EventsAt("call") :
           p < q => \E r \in EventsAt("sleep") : p < r /\ r < q
    /\ pc \in {"loop", "item", "done"} =>
           /\ Cardinality(EventsAt("sleep")) = Len(results)
           /\ Cardinality(EventsAt("progress")) = Len(results)
    /\ pc = "item" => Len(events) = 0 \/ events[Len(events)].ev = "sleep"

\* C16 witness: a finished run of two requests, each followed by its append,
\* report and sleep
C16_Witness ==
    /\ pc = "done"
    /\ Len(npi_list) = 2
    /\ events = <<[ev |-> "call", idx |-> 1], [ev |-> "append", idx |-> 1],
                  [ev |-> "progress", idx |-> 1], [ev |-> "sleep", idx |-> 1],
                  [ev |-> "call", idx |-> 2], [ev |-> "append", idx |-> 2],
                  [ev |-> "progress", idx |-> 2], [ev |-> "sleep", idx |-> 2]>>

---------------------------------------------------------------------------
(* Claims about the normalizer, checked under SpecNormalize.               *)

Normalized == pc = "normalized" /\ ~provider_info.none

\* the result the normalizer read: the first of the response
RawResult == api_response.value.results[1]

RawAddresses == Get(RawResult, "addresses", <<>>)

RawBasic == Get(RawResult, "basic", EmptyDict)

TaggedAt(addresses, tag) ==
    {k \in 1..Len(addresses) : GetIs(addresses[k], "address_purpose", tag)}

\* the practice address fields of a record are those of this address entry
PracticeFrom(info, address) ==
    /\ info.primary_practice_address =
           Strip(Get(address, "address_1", <<>>) \o <<" ">>
                     \o Get(address, "address_2", <<>>))
    /\ info.primary_practice_city = Get(address, "city", <<>>)
    /\ info.primary_practice_state = Get(address, "state", <<>>)
    /\ info.primary_practice_zip = Get(address, "postal_code", <<>>)
    /\ info.primary_practice_phone = Get(address, "telephone_number", <<>>)
    /\ info.primary_practice_fax = Get(address, "fax_number", <<>>)

\* the mailing address fields of a record are those of this address entry
MailingFrom(info, address) ==
    /\ info.mailing_address =
           Strip(Get(address, "address_1", <<>>) \o <<" ">>
                     \o Get(address, "address_2", <<>>))
    /\ info.mailing_city = Get(address, "city", <<>>)
    /\ info.mailing_state = Get(address, "state", <<>>)
    /\ info.mailing_zip = Get(address, "postal_code", <<>>)

AddressFields ==
    {"primary_practice_address", "primary_practice_city", "primary_practice_state",
     "primary_practice_zip", "primary_practice_phone", "primary_practice_fax",
     "mailing_address", "mailing_city", "mailing_state", "mailing_zip"}

HasRecognizedTag(address) ==
    GetIs(address, "address_purpose", "LOCATION")
        \/ GetIs(address, "address_purpose", "MAILING")

\* C6: with exactly one LOCATION entry and exactly one MAILING entry in the
\* address list, in whatever order and with whatever untagged or otherwise
\* tagged entries around them, the practice address of the record is that of
\* the LOCATION entry and the mailing address that of the MAILING entry; and
\* in every list, the entries without a recognized tag change no address
\* field: the record has the address fields of the same result with those
\* entries removed.
C6_AddressesByTag ==
    Normalized =>
        LET info == provider_info.value
            loc  == TaggedAt(RawAddresses, "LOCATION")
            mail == TaggedAt(RawAddresses, "MAILING")
            kept == SelectSeq(RawAddresses, HasRecognizedTag)
            same == BuildInfo(("addresses" :> kept) @@ RawResult)
        IN  /\ (Cardinality(loc) = 1 /\ Cardinality(mail) = 1) =>
                /\ \A k \in loc : PracticeFrom(info, RawAddresses[k])
                /\ \A k \in mail : MailingFrom(info, RawAddresses[k])
            /\ \A f \in AddressFields : info[f] = same[f]

\* C6 witness: mailing first, location second, an unrecognized tag third,
\* and the record's practice city is the LOCATION entry's, not the first's
C6_Witness ==
    /\ Normalized
    /\ Len(RawAddresses) = 3
    /\ GetIs(RawAddresses[1], "address_purpose", "MAILING")
    /\ GetIs(RawAddresses[2], "address_purpose", "LOCATION")
    /\ GetIs(RawAddresses[3], "address_purpose", "PRIMARY")
    /\ RawAddresses[1].city # RawAddresses[2].city
    /\ provider_info.value.primary_practice_city = RawAddresses[2].city
    /\ provider_info.value.mailing_city = RawAddresses[1].city

\* C7: when no entry of a non-empty address list carries a recognized tag,
\* the first entry populates the practice address and the second entry the
\* mailing address.
C7_PositionalFallback ==
    (Normalized /\ RawAddresses # <<>>
        /\ \A k \in 1..Len(RawAddresses) : ~HasRecognizedTag(RawAddresses[k])) =>
        /\ PracticeFrom(provider_info.value, RawAddresses[1])
        /\ Len(RawAddresses) >= 2 => MailingFrom(provider_info.value, RawAddresses[2])

\* C8: a record of kind Organization has empty first_name and last_name, and
\* a record of kind Individual has an empty organization_name.
C8_NameFieldsByKind ==
    Normalized =>
        LET info == provider_info.value IN
        /\ info.entity_type = "Organization" =>
               info.first_name = <<>> /\ info.last_name = <<>>
        /\ info.entity_type = "Individual" => info.organization_name = <<>>

\* the candidate fields of the organization name that are non-empty
NonEmptyCandidates(basic) ==
    {k \in 1..Len(OrgNameKeys) :
        OrgNameKeys[k] \in DOMAIN basic /\ basic[OrgNameKeys[k]] # <<>>}

\* C9: for a record of kind Organization, organization_name is the first
\* non-empty of organization_name, name, legal_business_name, org_name, and
\* empty only when all four are empty or absent.
C9_OrganizationNameChain ==
    (Normalized /\ provider_info.value.entity_type = "Organization") =>
        LET cand == NonEmptyCandidates(RawBasic) IN
        IF cand = {} THEN provider_info.value.organization_name = <<>>
        ELSE LET first == CHOOSE k \in cand : \A m \in cand : k <= m
             IN  provider_info.value.organization_name = RawBasic[OrgNameKeys[first]]

\* C14: a record the normalizer produces has a non-empty identifier.
C14_IdentifierPresent ==
    Normalized => provider_info.value.npi # <<>>

RawTaxonomies == Get(RawResult, "taxonomies", <<>>)

\* C15: the taxonomy code and description of a record are those of the
\* first entry flagged primary; with no entry flagged, those of the first
\* entry; with an empty list, both empty.
C15_PrimaryTaxonomy ==
    Normalized =>
        LET info == provider_info.value
            flagged == {k \in 1..Len(RawTaxonomies) :
                           GetIs(RawTaxonomies[k], "primary", TRUE)}
            pick == IF flagged = {} THEN 1
                    ELSE CHOOSE k \in flagged : \A m \in flagged : k <= m
        IN  IF RawTaxonomies = <<>>
            THEN info.primary_taxonomy = <<>> /\ info.taxonomy_description = <<>>
            ELSE /\ info.primary_taxonomy = Get(RawTaxonomies[pick], "code", <<>>)
                 /\ info.taxonomy_description = Get(RawTaxonomies[pick], "desc", <<>>)

---------------------------------------------------------------------------
(* The validator run: one call of validate_npi.                            *)

\* the characters put in place of one digit of a run
OddChars == {"a", "-", " ", "SUP2"}

Paddings == {<<>>, <<" ">>, <<"TAB", " ">>, <<"NL">>}

\* digit runs of every length up to MaxLen, whole or with one character
\* replaced, with whitespace before and after
ValidatorInputs ==
    {l \o body \o r :
        l \in Paddings, r \in Paddings,
        body \in {DigitRun(n) : n \in 0..MaxLen} \cup
                 UNION {{[DigitRun(n) EXCEPT ![p] = c] : p \in 1..n, c \in OddChars} :
                           n \in 1..MaxLen}}

InitValidate ==
    /\ pc = "validate"
    /\ vin \in ValidatorInputs
    /\ vout = FALSE
    /\ BatchIdle /\ NormIdle /\ SearchIdle

Validate ==
    /\ pc = "validate"
    /\ vout' = validate_npi(vin)
    /\ pc' = "validated"
    /\ UNCHANGED <<vin, normVars, searchVars>>
    /\ UNCHANGED <<npi_list, facility_focus, show_all, i, npi, results, origin,
                   calls, progress, events, df>>

NextValidate == Validate

SpecValidate == InitValidate /\ [][NextValidate]_vars

\* s is whitespace, then exactly ten decimal digits, then whitespace
TenDecimalDigitsTrimmed(s) ==
    \E a \in 0..Len(s) :
        /\ a + NPI_LENGTH <= Len(s)
        /\ \A k \in 1..a : IsSpaceChar(s[k])
        /\ \A k \in (a + 1)..(a + NPI_LENGTH) : IsDecimalChar(s[k])
        /\ \A k \in (a + NPI_LENGTH + 1)..Len(s) : IsSpaceChar(s[k])

\* C5: validate_npi returns true if and only if the string, trimmed of
\* surrounding whitespace, is exactly 10 characters, all decimal digits.
C5_ValidateIffTenDecimalDigits ==
    pc = "validated" => (vout <=> TenDecimalDigitsTrimmed(vin))

---------------------------------------------------------------------------
(* Search mode: the "Search Providers" handler.                            *)

API_VERSION == "2.1"

MSG_NO_CRITERION  == "Please enter at least one search criterion."
MSG_FOUND         == "Found result_count provider(s)"
MSG_NONE_FOUND    == "No providers found matching your search criteria."
MSG_MORE          == "Showing first limit results of result_count total."
MSG_SEARCH_FAILED == "Search failed"
MSG_PROCESSING    == "Error processing results"

T_PA == <<"p", "a">>

\* str.upper, on the letters of the model
UpperChar(c) ==
    CASE c = "p" -> "P"
      [] c = "a" -> "A"
      [] OTHER -> c

Upper(s) == [k \in 1..Len(s) |-> UpperChar(s[k])]

TextWidgets ==
    {"org_name", "first_name", "last_name", "city", "state", "postal_code",
     "taxonomy_desc"}

\* the widgets of the search tab, lines 520-540; of the slider, its lowest
\* value and one above it
AllSearchForms ==
    [search_type     : {"All", "Organizations Only", "Individuals Only"},
     org_name        : {<<>>, <<" ">>, T_ORG},
     first_name      : {<<>>, T_JOHN},
     last_name       : {<<>>, T_DOE},
     city            : {<<>>, <<"X">>},
     state           : {<<>>, T_PA},
     postal_code     : {<<>>, <<"1">>},
     taxonomy_desc   : {<<>>, <<"a">>},
     address_purpose : {"Any", "LOCATION"},
     limit           : {1, MaxLimit}]

SearchForms ==
    {f \in AllSearchForms :
        Cardinality({w \in TextWidgets : f[w] # <<>>}) <= MaxSupplied}

\* one "if cond: params[key] = value"
Param(cond, key, value) == IF cond THEN key :> value ELSE EmptyDict

\* lines 544-571: the params of the request
SearchParams(f) ==
    Param(f.search_type = "Organizations Only", "enumeration_type", "NPI-2")
    @@ Param(f.search_type = "Individuals Only", "enumeration_type", "NPI-1")
    @@ Param(f.org_name # <<>>, "organization_name", f.org_name)
    @@ Param(f.first_name # <<>>, "first_name", f.first_name)
    @@ Param(f.last_name # <<>>, "last_name", f.last_name)
    @@ Param(f.city # <<>>, "city", f.city)
    @@ Param(f.state # <<>>, "state", Upper(f.state))
    @@ Param(f.postal_code # <<>>, "postal_code", f.postal_code)
    @@ Param(f.taxonomy_desc # <<>>, "taxonomy_description", f.taxonomy_desc)
    @@ Param(f.address_purpose # "Any", "address_purpose", f.address_purpose)
    @@ [version |-> API_VERSION, limit |-> f.limit]

\* line 574 without the taxonomy text (a mutant)
search_criteria_NoTaxonomy(f) ==
    <<f.org_name, f.first_name, f.last_name, f.city, f.state, f.postal_code>>

\* line 574
search_criteria(f) ==
    <<f.org_name, f.first_name, f.last_name, f.city, f.state, f.postal_code,
      f.taxonomy_desc>>

\* any(texts): some text is non-empty
AnyTruthy(texts) == \E k \in 1..Len(texts) : texts[k] # <<>>

\* what the search request can end in: a transport failure or error status,
\* a body that is no JSON, or a parsed body; result_count and the length of
\* results are what the registry sent, each on its own
SearchOutcomes ==
    {[kind |-> "RequestException"], [kind |-> "JSONDecodeError"]}
        \cup {[kind |-> "json", body |-> EmptyDict]}
        \cup {[kind |-> "json",
               body |-> [result_count |-> c, results |-> [k \in 1..r |-> OrgResult]]] :
                  c \in 0..MaxTotal, r \in 0..MaxRows}

\* lines 593-597: one normalized record for each result of the body
SearchResults(data) ==
    LET rows  == Get(data, "results", <<>>)
        infos == [k \in 1..Len(rows) |->
                     extract_provider_info(Some([results |-> <<rows[k]>>]))]
        kept  == SelectSeq(infos, LAMBDA info : ~info.none)
    IN  [k \in 1..Len(kept) |-> kept[k].value]

SearchPriorityFacility ==
    <<"npi", "entity_type", "facility_name", "doing_business_as",
      "primary_practice_city", "primary_practice_state", "taxonomy_description">>

SearchPriorityPerson ==
    <<"npi", "entity_type", "name", "primary_practice_city",
      "primary_practice_state", "taxonomy_description">>

\* lines 600-613: the table of the results
SearchTable(rows, focus, all) ==
    LET results_df == DataFrame(rows)
        priority_cols == IF focus THEN SearchPriorityFacility ELSE SearchPriorityPerson
        available_cols == SelectSeq(priority_cols,
                                    LAMBDA c : c \in Range(results_df.columns))
    IN  IF all THEN results_df ELSE SelectColumns(results_df, available_cols)

\* line 626 comparing the rows received with the limit (a mutant)
MoreAvailable_ByRows(data, rows, limit) == Len(rows) > limit

\* line 626
MoreAvailable(data, rows, limit) == Get(data, "result_count", 0) > limit

\* lines 587-630: the page for a parsed body
SearchPage(data, limit, focus, all) ==
    LET result_count == Get(data, "result_count", 0)
        rows == SearchResults(data)
    IN  IF result_count > 0
        THEN IF rows # <<>>
             THEN [messages |-> <<MSG_FOUND>> \o
                                (IF MoreAvailable(data, rows, limit)
                                 THEN <<MSG_MORE>> ELSE <<>>),
                   shown |-> Some(SearchTable(rows, focus, all))]
             ELSE [messages |-> <<MSG_FOUND>>, shown |-> NoneValue]
        ELSE [messages |-> <<MSG_NONE_FOUND>>, shown |-> NoneValue]

InitSearch ==
    /\ pc = "search"
    /\ form \in SearchForms
    /\ facility_focus \in BOOLEAN
    /\ show_all \in BOOLEAN
    /\ reply = NoneValue /\ request = NoneValue
    /\ messages = <<>> /\ shown = NoneValue
    /\ npi_list = <<>>
    /\ i = 0 /\ npi = <<>> /\ results = <<>> /\ origin = <<>> /\ calls = <<>>
    /\ progress = <<>> /\ events = <<>> /\ df = NoneValue
    /\ NormIdle /\ ValidIdle

\* lines 542-637: one press of "Search Providers".  A body that is no JSON
\* is a RequestException for the requests releases that raise their own
\* JSONDecodeError and a plain exception for the older ones.
Search ==
    /\ pc = "search"
    /\ IF AnyTruthy(search_criteria(form))
       THEN \E outcome \in SearchOutcomes :
              /\ request' = Some(SearchParams(form))
              /\ reply' = Some(outcome)
              /\ CASE outcome.kind = "json" ->
                        LET page == SearchPage(outcome.body, form.limit,
                                               facility_focus, show_all)
                        IN  messages' = page.messages /\ shown' = page.shown
                   [] outcome.kind = "RequestException" ->
                        messages' = <<MSG_SEARCH_FAILED>> /\ shown' = NoneValue
                   [] outcome.kind = "JSONDecodeError" ->
                        /\ \E m \in {MSG_SEARCH_FAILED, MSG_PROCESSING} :
                               messages' = <<m>>
                        /\ shown' = NoneValue
       ELSE /\ request' = NoneValue
            /\ reply' = NoneValue
            /\ messages' = <<MSG_NO_CRITERION>>
            /\ shown' = NoneValue
    /\ pc' = "searched"
    /\ UNCHANGED <<form, normVars, validVars>>
    /\ UNCHANGED <<npi_list, facility_focus, show_all, i, npi, results, origin,
                   calls, progress, events, df>>

NextSearch == Search

SpecSearch == InitSearch /\ [][NextSearch]_vars

---------------------------------------------------------------------------
(* Claims about the search, checked under SpecSearch.                      *)

Searched == pc = "searched"

TextCriteria ==
    {"org_name", "first_name", "last_name", "city", "state", "postal_code",
     "taxonomy_desc"}

\* the name a text criterion goes by in the request
ParamKey(c) ==
    CASE c = "org_name" -> "organization_name"
      [] c = "taxonomy_desc" -> "taxonomy_description"
      [] OTHER -> c

Rejected ==
    /\ request.none /\ reply.none /\ shown.none
    /\ messages = <<MSG_NO_CRITERION>>

Issued ==
    /\ ~request.none /\ ~reply.none
    /\ MSG_NO_CRITERION \notin Range(messages)

\* C11 as stated: the search is rejected, with the validation message and
\* no request, when all nine criteria (the seven texts, the address-purpose
\* filter and the entity-kind filter) are blank, and the request is issued
\* when at least one of the nine is supplied.
C11_RejectedIffAllNineBlank ==
    Searched =>
        LET blank == /\ \A c \in TextCriteria : form[c] = <<>>
                     /\ form.address_purpose = "Any"
                     /\ form.search_type = "All"
        IN  IF blank THEN Rejected ELSE Issued

\* C11, amended: the search is rejected, with the validation message and no
\* request, exactly when the seven text criteria are all empty, whatever the
\* two filters are set to; when at least one text criterion is non-empty the
\* request is issued and carries every supplied text criterion and every
\* filter that is set.
C11_RejectedIffNoTextCriterion ==
    Searched =>
        IF \A c \in TextCriteria : form[c] = <<>>
        THEN Rejected
        ELSE /\ Issued
             /\ \A c \in TextCriteria :
                    form[c] # <<>> <=> ParamKey(c) \in DOMAIN request.value
             /\ form.address_purpose # "Any"
                    <=> "address_purpose" \in DOMAIN request.value
             /\ form.search_type # "All"
                    <=> "enumeration_type" \in DOMAIN request.value
             /\ request.value.limit = form.limit

\* a search with both filters set and no text is rejected
C11_Witness ==
    /\ Searched
    /\ \A c \in TextCriteria : form[c] = <<>>
    /\ form.address_purpose = "LOCATION"
    /\ form.search_type = "Organizations Only"
    /\ Rejected

ParsedReply == Searched /\ ~reply.none /\ reply.value.kind = "json"

ReportedTotal == Get(reply.value.body, "result_count", 0)

Returned == Get(reply.value.body, "results", <<>>)

Signalled == MSG_MORE \in Range(messages)

\* C12 as stated: every successful response whose reported total is greater
\* than the requested limit has the "more results available" condition
\* surfaced.
C12_MoreResultsSignalled ==
    (ParsedReply /\ ReportedTotal > form.limit) => Signalled

\* C12, amended: every successful response that reports a total greater than
\* the requested limit and carries at least one result has a table shown
\* and the "more results available" condition surfaced; no table is shown
\* for a total above the limit without that signal.
C12_ShownResultsSignalled ==
    /\ (ParsedReply /\ ReportedTotal > form.limit /\ Returned # <<>>)
           => (Signalled /\ ~shown.none)
    /\ (ParsedReply /\ ReportedTotal > form.limit /\ ~shown.none) => Signalled

\* a response of two results for a total of three under a limit of two
C12_Witness ==
    /\ ParsedReply
    /\ ReportedTotal = 3 /\ form.limit = 2 /\ Len(Returned) = 2
    /\ ~shown.none /\ Len(shown.value.rows) = 2
    /\ messages = <<MSG_FOUND, MSG_MORE>>

===========================================================================
